---- MODULE Spec2Model ----
(***************************************************************************)
(* kv-utils (src/mod.ts): multiSet, multiDelete, wipeKvStore, count,       *)
(* countAll and replaceLocalDataWithRemote over a Deno KV store.           *)
(*                                                                         *)
(* Under Spec one behaviour is one call of the public API on a store with  *)
(* arbitrary (bounded) content; MirrorSpec is replaceLocalDataWithRemote   *)
(* alone, with the fairness of a run whose store calls come back;          *)
(* RoundTripSpec is two calls in a row, as the tests of src/mod_test.ts    *)
(* make them; ConcurrentSpec is a multiDelete of a selector while another  *)
(* client of the store sets keys.  Every await of the source is a step of  *)
(* its own.                                                                *)
(* A Deno.KvKey is an array, compared by reference by Map and by content   *)
(* by the store: a key object is modelled as [ref, parts].                 *)
(***************************************************************************)
EXTENDS Integers, Sequences, FiniteSets, TLC

\* ------------------------------------------------------------ constants
\* The limits of src/mod.ts:8-11, scaled down so that a bounded run reaches them
\* (1000 -> 2 operations, 65536 -> 4 bytes, 819000 -> 10 bytes).
MAX_NUM_TRANSACTIONS == 2
MAX_KV_VALUE_SIZE == 4
MAX_TRANSACTION_SIZE == 10
SIZE_LIMIT == MAX_TRANSACTION_SIZE - MAX_KV_VALUE_SIZE

\* Longest caller-supplied map or key array.
MaxOps == 3

\* ------------------------------------------------------------ data
\* Keys are arrays of numbers; values are numbers.
Keys == {<<1, 1>>, <<1, 2>>, <<2>>}
Values == {7, 4444, 7777777}
\* the keys a caller's map is built from
MapKeys == {<<1, 1>>, <<2>>}
NoValue == -1
NoKey == <<>>

KeyObj(ref, parts) == [ref |-> ref, parts |-> parts]

\* A list selector {prefix} or {prefix, end}.
Selector(prefix, end) == [prefix |-> prefix, end |-> end]
SelAll == Selector(<<>>, NoKey)
SelOne == Selector(<<1>>, NoKey)
SelOneEnd == Selector(<<1>>, <<1, 2>>)
SelTwo == Selector(<<2>>, NoKey)
Selectors == {SelAll, SelOne, SelOneEnd, SelTwo}

EmptyStore == [k \in Keys |-> NoValue]
InitStores ==
  { [k \in Keys |-> 7],
    [k \in Keys |-> IF k = <<1, 1>> THEN NoValue ELSE 4444] }

SeqsUpTo(S, n) == UNION {[1..m -> S] : m \in 0..n}

\* ------------------------------------------------------------ the store
RECURSIVE KeyLess(_, _)
KeyLess(a, b) ==
  IF a = <<>> THEN b # <<>>
  ELSE IF b = <<>> THEN FALSE
  ELSE IF a[1] # b[1] THEN a[1] < b[1]
  ELSE KeyLess(Tail(a), Tail(b))

IsStrictPrefix(p, k) ==
  /\ Len(p) < Len(k)
  /\ \A j \in 1..Len(p) : p[j] = k[j]

InRange(sel, k) ==
  /\ IsStrictPrefix(sel.prefix, k)
  /\ sel.end = NoKey \/ KeyLess(k, sel.end)

\* The keys kv.list(sel) still has to yield after `cur`.
Remaining(store, sel, cur) ==
  {k \in Keys : store[k] # NoValue /\ InRange(sel, k) /\ (cur = NoKey \/ KeyLess(cur, k))}

NextListed(store, sel, cur) ==
  CHOOSE k \in Remaining(store, sel, cur) :
    \A o \in Remaining(store, sel, cur) : o = k \/ KeyLess(k, o)

SetOp(key, value) == [type |-> "set", key |-> key, value |-> value]
\* A faulty variant: a delete that leaves an entry with an empty value behind.
DeleteOpLeavesEntry(key) == [type |-> "delete", key |-> key, value |-> 0]

DeleteOp(key) == [type |-> "delete", key |-> key, value |-> NoValue]

ApplyOp(store, m) == [store EXCEPT ![m.key] = m.value]

RECURSIVE ApplyAll(_, _)
ApplyAll(store, ms) ==
  IF ms = <<>> THEN store ELSE ApplyAll(ApplyOp(store, Head(ms)), Tail(ms))

\* ------------------------------------------------------------ sizes
\* JSON.stringify(x).length: a number is its decimal digits, an array of
\* numbers is "[" d "," d ... "]".
RECURSIVE Digits(_)
Digits(x) == IF x < 10 THEN 1 ELSE 1 + Digits(x \div 10)

RECURSIVE SumDigits(_)
SumDigits(k) == IF k = <<>> THEN 0 ELSE Digits(Head(k)) + SumDigits(Tail(k))

JsonLenValue(v) == Digits(v)
JsonLenKey(k) == IF k = <<>> THEN 2 ELSE 2 + SumDigits(k) + (Len(k) - 1)

computeTransactionSize(m) ==
  IF m.type = "set" THEN JsonLenValue(m.value) ELSE JsonLenKey(m.key)

\* ------------------------------------------------------------ state
VARIABLES
  kv,               \* the local store: key -> value or NoValue
  remote,           \* the remote store, once opened
  api,              \* the public function called
  pc,               \* where the multiSet / multiDelete / count frame stands
  fn,               \* "multiSet" or "multiDelete": the running batch frame
  selector,         \* the list selector being iterated
  cursor,           \* the last key kv.list yielded
  keyValues,        \* multiSet's argument: Map entries in insertion order
  keys,             \* multiDelete's key array
  i,                \* entries the for loop has consumed
  atomic,           \* mutations staged in the current atomic operation
  count,
  transactionSize,
  keysInAction,
  failedKeys,
  afterLoop,        \* TRUE from line 43 / 96 on (the commit after the loop)
  r,                \* keys the retry loop has consumed
  retryFailedKeys,  \* failedKeys of retrySetIndividually / retryDeleteIndividually
  ret,              \* what the batch frame returned: <<>> or <<Result>>
  cnt,              \* count()'s counter
  result,           \* what the public call returned: <<>> or <<value>>
  mpc,              \* where replaceLocalDataWithRemote stands
  prefixes,         \* its argument: [given, list]
  p,                \* prefixes its current loop has consumed
  data,             \* its Map of remote entries
  mirrorFailedKeys, \* its failedKeys
  \* history, read by the properties only
  kv0,              \* the local store when the batch frame was entered
  commitLog,        \* every atomic.commit(): [ops, keys, ok]
  indivLog,         \* every kv.set / kv.delete of a retry: [op, key, ok, group]
  listFailed,       \* an iteration of kv.list / remoteKv.list threw
  deleteFailures,   \* key parts whose kv.delete threw during the mirror run
  writeFailures,    \* key parts whose kv.set threw during the mirror run
  faults,           \* store calls that threw since the first public call
  prior,            \* the public calls that returned before the running one
  others            \* the writes of other clients of the store during the call

frame == <<fn, selector, cursor, keyValues, keys, i, atomic, count,
           transactionSize, keysInAction, failedKeys, afterLoop, r,
           retryFailedKeys, ret, cnt>>
mirror == <<mpc, prefixes, p, data, mirrorFailedKeys, remote>>
history == <<kv0, commitLog, indivLog, listFailed, deleteFailures, writeFailures,
             faults, prior, others>>
vars == <<kv, api, pc, result, frame, mirror, history>>

NoPrefixes == [given |-> FALSE, list |-> <<>>]

InitIn(stores) ==
  /\ kv \in stores
  /\ remote = EmptyStore
  /\ api = "none"
  /\ pc = "idle"
  /\ fn = "none"
  /\ selector = SelAll
  /\ cursor = NoKey
  /\ keyValues = <<>>
  /\ keys = <<>>
  /\ i = 0
  /\ atomic = <<>>
  /\ count = 0
  /\ transactionSize = 0
  /\ keysInAction = <<>>
  /\ failedKeys = <<>>
  /\ afterLoop = FALSE
  /\ r = 0
  /\ retryFailedKeys = <<>>
  /\ ret = <<>>
  /\ cnt = 0
  /\ result = <<>>
  /\ mpc = "none"
  /\ prefixes = NoPrefixes
  /\ p = 0
  /\ data = <<>>
  /\ mirrorFailedKeys = <<>>
  /\ kv0 = kv
  /\ commitLog = <<>>
  /\ indivLog = <<>>
  /\ listFailed = FALSE
  /\ deleteFailures = <<>>
  /\ writeFailures = <<>>
  /\ faults = 0
  /\ prior = <<>>
  /\ others = <<>>

Init == InitIn(InitStores)

\* ------------------------------------------------------------ helpers
\* A faulty variant: a lookup by key content, which finds the first entry
\* with equal parts.
MapGetByContent(map, key) ==
  map[CHOOSE j \in DOMAIN map :
        /\ map[j].key.parts = key.parts
        /\ \A o \in DOMAIN map : map[o].key.parts = key.parts => j <= o].value

\* Map<Deno.KvKey, unknown>.get: the entry whose key is the same object.
MapGet(map, key) == map[key.ref].value

\* new Map(entries) / an array of keys: every key is an object of its own.
MapOf(e) == [j \in 1..Len(e) |-> [key |-> KeyObj(j, e[j][1]), value |-> e[j][2]]]
ArrayOf(ks) == [j \in 1..Len(ks) |-> KeyObj(j, ks[j])]

InputLen == IF fn = "multiSet" THEN Len(keyValues) ELSE Len(keys)
EntryKey(j) == IF fn = "multiSet" THEN keyValues[j].key ELSE keys[j]
\* atomic.set(key, value) / atomic.delete(key)
EntryOp(j) ==
  IF fn = "multiSet" THEN SetOp(keyValues[j].key.parts, keyValues[j].value)
  ELSE DeleteOp(keys[j].parts)
\* A faulty variant: the fallback looks the value up under a key the map
\* does not hold and sets what the lookup gives, undefined (here 0).
RetryOpLookupMisses(key) ==
  IF fn = "multiSet" THEN SetOp(key.parts, 0)
  ELSE DeleteOp(key.parts)

\* kv.set(key, keyValues.get(key)) / kv.delete(key)
RetryOp(key) ==
  IF fn = "multiSet" THEN SetOp(key.parts, MapGet(keyValues, key))
  ELSE DeleteOp(key.parts)

\* Faulty variants: the test of the module's first version, which looked at
\* the count only, and a count test that is one late.
SealCountOnly(c, size) == c = MAX_NUM_TRANSACTIONS
SealOneLate(c, size) == c > MAX_NUM_TRANSACTIONS \/ size > SIZE_LIMIT

\* if (++count == MAX_NUM_TRANSACTIONS || transactionSize > SIZE_LIMIT)
Seal(c, size) == c = MAX_NUM_TRANSACTIONS \/ size > SIZE_LIMIT

\* Faulty variants: the operations staged after the last sealed group are
\* never committed; a commit follows the loop whatever is staged.
LeftoverDropped(c) == FALSE
LeftoverAlways(c) == TRUE

\* lines 43 / 96: if (count > 0)
Leftover(c) == c > 0

\* A faulty variant: the atomic operation is used again after its commit.
KeepAtomic(old) == old

\* atomic = kv.atomic()
NewAtomic(old) == <<>>

\* A faulty variant: the keys of a sealed group stay in keysInAction.
KeysInActionKept(old) == old

\* lines 40 / 93: keysInAction = []
NewKeysInAction(old) == <<>>

\* A faulty variant: count keeps running over the sealed group.
CountKept(old) == old

\* lines 38 / 91: count = 0
NewCount(old) == 0

\* A faulty variant: a failed commit is tried again.
OnCommitErrorCommitAgain == "commit"

\* catch (e) { failedKeys.push(...await retryXIndividually(keysInAction)) }
OnCommitError == "retry"

\* A faulty variant: the retry loop ends at the first key that fails.
RetryStopAtFailure(idx, ok) == IF ok THEN idx + 1 ELSE Len(keysInAction)

\* the retry loop goes on to the next key whatever the outcome
RetryNext(idx, ok) == idx + 1

\* catch (e) { failedKeys.push(key) }
OnRetryError(failed, key) == Append(failed, key)

\* A faulty variant: failedKeys = retried, which forgets earlier groups.
PushAllOverwrite(failed, more) == more

\* failedKeys.push(...retried)
PushAll(failed, more) == failed \o more

\* A faulty variant: the throw is caught and the keys listed so far are used.
OnListErrorGoOn == "loop"

\* a throw inside `for await (... of kv.list(...))` is not caught
OnListError == "thrown"

\* A faulty variant: failedKeys.length > 1.
MkResultOneLate(failed) ==
  IF Len(failed) > 1 THEN [ok |-> FALSE, failedKeys |-> failed]
  ELSE [ok |-> TRUE, failedKeys |-> IF Len(failed) > 0 THEN failed ELSE <<>>]

\* failedKeys.length > 0 ? { ok: false, failedKeys } : { ok: true }
MkResult(failed) ==
  IF Len(failed) > 0 THEN [ok |-> FALSE, failedKeys |-> failed]
  ELSE [ok |-> TRUE, failedKeys |-> <<>>]

\* ------------------------------------------------------------ multiSet / multiDelete
EnterFrame(f) ==
  /\ fn' = f
  /\ i' = 0
  /\ atomic' = NewAtomic(atomic)
  /\ count' = 0
  /\ transactionSize' = 0
  /\ keysInAction' = <<>>
  /\ failedKeys' = <<>>
  /\ afterLoop' = FALSE
  /\ r' = 0
  /\ retryFailedKeys' = <<>>
  /\ ret' = <<>>
  /\ kv0' = kv
  /\ commitLog' = <<>>
  /\ indivLog' = <<>>

EnterMultiSet(map) ==
  /\ EnterFrame("multiSet")
  /\ keyValues' = map
  /\ keys' = <<>>
  /\ pc' = "loop"
  /\ UNCHANGED <<selector, cursor>>

EnterMultiDeleteKeys(array) ==
  /\ EnterFrame("multiDelete")
  /\ keys' = array
  /\ keyValues' = <<>>
  /\ pc' = "loop"
  /\ UNCHANGED <<selector, cursor>>

EnterMultiDeleteSelector(sel) ==
  /\ EnterFrame("multiDelete")
  /\ keys' = <<>>
  /\ keyValues' = <<>>
  /\ selector' = sel
  /\ cursor' = NoKey
  /\ pc' = "list"

\* for await (const entry of kv.list(source)) keys.push(entry.key)
DeleteListNext ==
  /\ pc = "list"
  /\ Remaining(kv, selector, cursor) # {}
  /\ LET k == NextListed(kv, selector, cursor) IN
       /\ keys' = Append(keys, KeyObj(Len(keys) + 1, k))
       /\ cursor' = k
  /\ UNCHANGED <<kv, api, pc, result, fn, selector, keyValues, i, atomic, count,
                 transactionSize, keysInAction, failedKeys, afterLoop, r,
                 retryFailedKeys, ret, cnt, mirror, history>>

DeleteListEnd ==
  /\ pc = "list"
  /\ Remaining(kv, selector, cursor) = {}
  /\ pc' = "loop"
  /\ UNCHANGED <<kv, api, result, frame, mirror, history>>

DeleteListFail ==
  /\ pc = "list"
  /\ listFailed' = TRUE
  /\ pc' = OnListError
  /\ UNCHANGED <<kv, api, result, frame, mirror, kv0, commitLog, indivLog,
                 deleteFailures, writeFailures, prior, others>>
  /\ faults' = faults + 1

\* lines 28-31 / 81-84: stage, then test whether the group is sealed
Stage ==
  /\ pc = "loop"
  /\ i < InputLen
  /\ LET op == EntryOp(i + 1)
         size == transactionSize + computeTransactionSize(op)
         c == count + 1
     IN  /\ atomic' = Append(atomic, op)
         /\ keysInAction' = Append(keysInAction, EntryKey(i + 1))
         /\ transactionSize' = size
         /\ count' = c
         /\ i' = i + 1
         /\ pc' = IF Seal(c, size) THEN "commit" ELSE "loop"
  /\ UNCHANGED <<kv, api, result, fn, selector, cursor, keyValues, keys,
                 failedKeys, afterLoop, r, retryFailedKeys, ret, cnt, mirror,
                 history>>

\* lines 43 / 96, reached when the for loop has consumed its input
AfterLoop ==
  /\ pc = "loop"
  /\ i = InputLen
  /\ afterLoop' = TRUE
  /\ pc' = IF Leftover(count) THEN "commit" ELSE "return"
  /\ UNCHANGED <<kv, api, result, fn, selector, cursor, keyValues, keys, i,
                 atomic, count, transactionSize, keysInAction, failedKeys, r,
                 retryFailedKeys, ret, cnt, mirror, history>>

\* lines 37-40 / 90-93, which only the commit inside the loop is followed by
NextGroup ==
  IF afterLoop
  THEN /\ pc' = "return"
       /\ UNCHANGED <<atomic, count, transactionSize, keysInAction>>
  ELSE /\ pc' = "loop"
       /\ atomic' = NewAtomic(atomic)
       /\ count' = NewCount(count)
       /\ transactionSize' = 0
       /\ keysInAction' = NewKeysInAction(keysInAction)

CommitOk ==
  /\ pc = "commit"
  /\ kv' = ApplyAll(kv, atomic)
  /\ commitLog' = Append(commitLog, [ops |-> atomic, keys |-> keysInAction, ok |-> TRUE])
  /\ NextGroup
  /\ UNCHANGED <<api, result, fn, selector, cursor, keyValues, keys, i,
                 failedKeys, afterLoop, r, retryFailedKeys, ret, cnt, mirror,
                 kv0, indivLog, listFailed, deleteFailures, writeFailures,
                 faults, prior, others>>

\* atomic.commit() throws: nothing of the group is applied
CommitFail ==
  /\ pc = "commit"
  /\ commitLog' = Append(commitLog, [ops |-> atomic, keys |-> keysInAction, ok |-> FALSE])
  /\ pc' = OnCommitError
  /\ r' = 0
  /\ retryFailedKeys' = <<>>
  /\ UNCHANGED <<kv, api, result, fn, selector, cursor, keyValues, keys, i,
                 atomic, count, transactionSize, keysInAction, failedKeys,
                 afterLoop, ret, cnt, mirror, kv0, indivLog, listFailed,
                 deleteFailures, writeFailures, prior, others>>
  /\ faults' = faults + 1

InMirror == api = "replaceLocalDataWithRemote"

\* retrySetIndividually / retryDeleteIndividually, one key
RetryOk ==
  /\ pc = "retry"
  /\ r < Len(keysInAction)
  /\ LET key == keysInAction[r + 1] IN
       /\ kv' = ApplyOp(kv, RetryOp(key))
       /\ indivLog' = Append(indivLog, [op |-> RetryOp(key), key |-> key,
                                        ok |-> TRUE, group |-> Len(commitLog)])
  /\ r' = RetryNext(r, TRUE)
  /\ UNCHANGED <<api, pc, result, fn, selector, cursor, keyValues, keys, i,
                 atomic, count, transactionSize, keysInAction, failedKeys,
                 afterLoop, retryFailedKeys, ret, cnt, mirror, kv0, commitLog,
                 listFailed, deleteFailures, writeFailures, faults, prior, others>>

RetryFail ==
  /\ pc = "retry"
  /\ r < Len(keysInAction)
  /\ LET key == keysInAction[r + 1] IN
       /\ retryFailedKeys' = OnRetryError(retryFailedKeys, key)
       /\ indivLog' = Append(indivLog, [op |-> RetryOp(key), key |-> key,
                                        ok |-> FALSE, group |-> Len(commitLog)])
       /\ deleteFailures' = IF InMirror /\ fn = "multiDelete"
                            THEN Append(deleteFailures, key.parts) ELSE deleteFailures
       /\ writeFailures' = IF InMirror /\ fn = "multiSet"
                           THEN Append(writeFailures, key.parts) ELSE writeFailures
  /\ r' = RetryNext(r, FALSE)
  /\ UNCHANGED <<kv, api, pc, result, fn, selector, cursor, keyValues, keys, i,
                 atomic, count, transactionSize, keysInAction, failedKeys,
                 afterLoop, ret, cnt, mirror, kv0, commitLog, listFailed, prior, others>>
  /\ faults' = faults + 1

\* the retry returned: failedKeys.push(...), then lines 37-40 / 90-93
RetryReturn ==
  /\ pc = "retry"
  /\ r >= Len(keysInAction)
  /\ failedKeys' = PushAll(failedKeys, retryFailedKeys)
  /\ NextGroup
  /\ UNCHANGED <<kv, api, result, fn, selector, cursor, keyValues, keys, i,
                 afterLoop, r, retryFailedKeys, ret, cnt, mirror, history>>

\* lines 51-53 / 104-106
Return ==
  /\ pc = "return"
  /\ ret' = <<MkResult(failedKeys)>>
  /\ IF InMirror
     THEN pc' = "returned" /\ UNCHANGED result
     ELSE pc' = "done" /\ result' = ret'
  /\ UNCHANGED <<kv, api, fn, selector, cursor, keyValues, keys, i, atomic,
                 count, transactionSize, keysInAction, failedKeys, afterLoop, r,
                 retryFailedKeys, cnt, mirror, history>>

\* ------------------------------------------------------------ count / countAll
\* A faulty variant: a count that stops at the size of one group.
TallyCapped(c) == IF c < MAX_NUM_TRANSACTIONS THEN c + 1 ELSE c

\* line 126: count++
Tally(c) == c + 1

CountNext ==
  /\ pc = "count"
  /\ Remaining(kv, selector, cursor) # {}
  /\ cursor' = NextListed(kv, selector, cursor)
  /\ cnt' = Tally(cnt)
  /\ UNCHANGED <<kv, api, pc, result, fn, selector, keyValues, keys, i, atomic,
                 count, transactionSize, keysInAction, failedKeys, afterLoop, r,
                 retryFailedKeys, ret, mirror, history>>

CountEnd ==
  /\ pc = "count"
  /\ Remaining(kv, selector, cursor) = {}
  /\ result' = <<cnt>>
  /\ pc' = "done"
  /\ UNCHANGED <<kv, api, frame, mirror, history>>

CountListFail ==
  /\ pc = "count"
  /\ listFailed' = TRUE
  /\ pc' = OnListError
  /\ UNCHANGED <<kv, api, result, frame, mirror, kv0, commitLog, indivLog,
                 deleteFailures, writeFailures, prior, others>>
  /\ faults' = faults + 1

\* ------------------------------------------------------------ the public calls
Idle == pc = "idle" /\ api = "none"

CallMultiSetOf(maps) ==
  /\ Idle
  /\ \E e \in maps : EnterMultiSet(MapOf(e))
  /\ api' = "multiSet"
  /\ UNCHANGED <<kv, result, cnt, mirror, listFailed, deleteFailures,
                 writeFailures, faults, prior, others>>

CallMultiSet == CallMultiSetOf(SeqsUpTo(MapKeys \X Values, MaxOps))

CallMultiDeleteKeys ==
  /\ Idle
  /\ \E ks \in SeqsUpTo(Keys, MaxOps) : EnterMultiDeleteKeys(ArrayOf(ks))
  /\ api' = "multiDelete"
  /\ UNCHANGED <<kv, result, cnt, mirror, listFailed, deleteFailures,
                 writeFailures, faults, prior, others>>

CallMultiDeleteSelector ==
  /\ Idle
  /\ \E sel \in Selectors : EnterMultiDeleteSelector(sel)
  /\ api' = "multiDelete"
  /\ UNCHANGED <<kv, result, cnt, mirror, listFailed, deleteFailures,
                 writeFailures, faults, prior, others>>

\* A faulty variant: a wipe of one prefix.
WipeSelectorOne == SelOne

\* line 115: { prefix: [] }
WipeSelector == SelAll

\* return await multiDelete({ prefix: [] })
CallWipeKvStore ==
  /\ Idle
  /\ EnterMultiDeleteSelector(WipeSelector)
  /\ api' = "wipeKvStore"
  /\ UNCHANGED <<kv, result, cnt, mirror, listFailed, deleteFailures,
                 writeFailures, faults, prior, others>>

EnterCount(sel) ==
  /\ selector' = sel
  /\ cursor' = NoKey
  /\ cnt' = 0
  /\ pc' = "count"
  /\ kv0' = kv
  /\ UNCHANGED <<kv, fn, keyValues, keys, i, atomic, count,
                 transactionSize, keysInAction, failedKeys, afterLoop, r,
                 retryFailedKeys, ret, mirror, commitLog, indivLog, listFailed,
                 deleteFailures, writeFailures, faults, others>>

CallCount ==
  /\ Idle
  /\ \E sel \in Selectors : EnterCount(sel)
  /\ api' = "count"
  /\ UNCHANGED <<result, prior, others>>

\* return await count({ prefix: [] })
CallCountAll ==
  /\ Idle
  /\ EnterCount(SelAll)
  /\ api' = "countAll"
  /\ UNCHANGED <<result, prior, others>>

\* ------------------------------------------------------------ replaceLocalDataWithRemote
Given(list) == [given |-> TRUE, list |-> list]
PrefixArgs == {NoPrefixes, Given(<<>>), Given(<<SelOne>>), Given(<<SelOneEnd, SelOne>>)}

RemoteStores ==
  { [k \in Keys |-> 7],
    [k \in Keys |-> IF k = <<1, 2>> THEN NoValue ELSE 4444] }

\* every entry remoteKv.list(sel) yields, in key order
RECURSIVE ListFrom(_, _, _)
ListFrom(store, sel, cur) ==
  IF Remaining(store, sel, cur) = {} THEN <<>>
  ELSE LET k == NextListed(store, sel, cur) IN <<k>> \o ListFrom(store, sel, k)

\* data.set(entry.key, entry.value) for every listed entry: each entry.key is
\* a new array, so each is a new entry of the Map
DataSetAll(map, store, ks) ==
  map \o [j \in 1..Len(ks) |->
            [key |-> KeyObj(Len(map) + j, ks[j]), value |-> store[ks[j]]]]

\* if (!result.ok) failedKeys.push(...result.failedKeys!)
Aggregate(failed, res) ==
  IF ~res.ok THEN PushAll(failed, res.failedKeys) ELSE failed

\* await wipeKvStore(): the Result is not looked at
AggregateWipe(failed, res) == failed

\* lines 203-205
MirrorResult(failed) ==
  IF Len(failed) > 0 THEN [ok |-> FALSE, failedKeys |-> failed]
  ELSE [ok |-> TRUE, failedKeys |-> <<>>]

\* A faulty variant: the delete loop is left after its first selector.
DeletesDoneAfterFirst(pn, list) == pn >= 1 \/ pn = Len(list)

\* line 159: the for loop over prefixes has consumed every selector
DeletesDone(pn, list) == pn = Len(list)

\* A faulty variant: the entries are listed from the local store.
FetchSourceLocal(localKv, remoteKv) == localKv

\* lines 174 / 183: the store remoteKv.list(...) reads
FetchSource(localKv, remoteKv) == remoteKv

\* A faulty variant: every remote loop lists the whole remote store.
FetchSelectorAll(list, pn) == SelAll

\* line 174: remoteKv.list(prefix, ...) for the selector the loop stands at
FetchSelector(list, pn) == list[pn + 1]

CallReplace ==
  /\ Idle
  /\ \E pf \in PrefixArgs :
       /\ prefixes' = pf
       /\ mpc' = IF pf.given THEN "delete" ELSE "wipe"
  /\ api' = "replaceLocalDataWithRemote"
  /\ data' = <<>>
  /\ mirrorFailedKeys' = <<>>
  /\ p' = 0
  /\ UNCHANGED <<kv, pc, result, frame, remote, history>>

\* lines 159-160: const result = await multiDelete(prefix)
MirrorDelete ==
  /\ mpc = "delete"
  /\ pc = "idle"
  /\ p < Len(prefixes.list)
  /\ EnterMultiDeleteSelector(prefixes.list[p + 1])
  /\ mpc' = "deleting"
  /\ UNCHANGED <<kv, api, result, cnt, prefixes, p, data, mirrorFailedKeys,
                 remote, listFailed, deleteFailures, writeFailures, faults,
                 prior, others>>

\* lines 161-164
MirrorDeleted ==
  /\ mpc = "deleting"
  /\ pc = "returned"
  /\ mirrorFailedKeys' = Aggregate(mirrorFailedKeys, ret[1])
  /\ p' = p + 1
  /\ mpc' = "delete"
  /\ pc' = "idle"
  /\ UNCHANGED <<kv, api, result, frame, prefixes, data, remote, history>>

\* line 167
MirrorWipe ==
  /\ mpc = "wipe"
  /\ pc = "idle"
  /\ EnterMultiDeleteSelector(WipeSelector)
  /\ mpc' = "wiping"
  /\ UNCHANGED <<kv, api, result, cnt, prefixes, p, data, mirrorFailedKeys,
                 remote, listFailed, deleteFailures, writeFailures, faults,
                 prior, others>>

MirrorWiped ==
  /\ mpc = "wiping"
  /\ pc = "returned"
  /\ mirrorFailedKeys' = AggregateWipe(mirrorFailedKeys, ret[1])
  /\ mpc' = "open"
  /\ pc' = "idle"
  /\ UNCHANGED <<kv, api, result, frame, prefixes, p, data, remote, history>>

\* line 169: const remoteKv = await Deno.openKv(remoteKvUrl)
MirrorOpen ==
  /\ \/ mpc = "open"
     \/ mpc = "delete" /\ pc = "idle" /\ DeletesDone(p, prefixes.list)
  /\ remote' \in RemoteStores
  /\ p' = 0
  /\ mpc' = "fetch"
  /\ UNCHANGED <<kv, api, pc, result, frame, prefixes, data, mirrorFailedKeys,
                 history>>

\* lines 171-189: one remoteKv.list(...) loop
MirrorFetch ==
  /\ mpc = "fetch"
  /\ IF prefixes.given
     THEN /\ p < Len(prefixes.list)
          /\ data' = DataSetAll(data, FetchSource(kv, remote),
                                ListFrom(FetchSource(kv, remote),
                                         FetchSelector(prefixes.list, p), NoKey))
          /\ p' = p + 1
          /\ mpc' = IF p + 1 = Len(prefixes.list) THEN "write" ELSE "fetch"
     ELSE /\ data' = DataSetAll(data, FetchSource(kv, remote),
                                ListFrom(FetchSource(kv, remote), SelAll, NoKey))
          /\ mpc' = "write"
          /\ UNCHANGED p
  /\ UNCHANGED <<kv, api, pc, result, frame, prefixes, mirrorFailedKeys, remote,
                 history>>

\* no remote loop to run: prefixes is an empty array
MirrorFetchNone ==
  /\ mpc = "fetch"
  /\ prefixes.given
  /\ Len(prefixes.list) = 0
  /\ mpc' = "write"
  /\ UNCHANGED <<kv, api, pc, result, frame, prefixes, p, data, mirrorFailedKeys,
                 remote, history>>

\* a throw inside `for await (... of remoteKv.list(...))` is not caught
MirrorFetchFail ==
  /\ mpc = "fetch"
  /\ ~prefixes.given \/ p < Len(prefixes.list)
  /\ mpc' = "thrown"
  /\ pc' = "thrown"
  /\ UNCHANGED <<kv, api, result, frame, prefixes, p, data, mirrorFailedKeys,
                 remote, kv0, commitLog, indivLog, listFailed, deleteFailures,
                 writeFailures, prior, others>>
  /\ faults' = faults + 1

\* line 191: const result = await multiSet(data)
MirrorWrite ==
  /\ mpc = "write"
  /\ pc = "idle"
  /\ EnterMultiSet(data)
  /\ mpc' = "writing"
  /\ UNCHANGED <<kv, api, result, cnt, prefixes, p, data, mirrorFailedKeys,
                 remote, listFailed, deleteFailures, writeFailures, faults,
                 prior, others>>

\* lines 193-205
MirrorWritten ==
  /\ mpc = "writing"
  /\ pc = "returned"
  /\ mirrorFailedKeys' = Aggregate(mirrorFailedKeys, ret[1])
  /\ result' = <<MirrorResult(mirrorFailedKeys')>>
  /\ mpc' = "done"
  /\ pc' = "done"
  /\ UNCHANGED <<kv, api, frame, prefixes, p, data, remote, history>>

Next ==
  \/ CallMultiDeleteKeys
  \/ CallMultiSet
  \/ CallMultiDeleteSelector
  \/ CallWipeKvStore
  \/ CallCount
  \/ CallCountAll
  \/ DeleteListNext
  \/ DeleteListEnd
  \/ DeleteListFail
  \/ Stage
  \/ AfterLoop
  \/ CommitOk
  \/ CommitFail
  \/ RetryOk
  \/ RetryFail
  \/ RetryReturn
  \/ Return
  \/ CountNext
  \/ CountEnd
  \/ CountListFail
  \/ CallReplace
  \/ MirrorDelete
  \/ MirrorDeleted
  \/ MirrorWipe
  \/ MirrorWiped
  \/ MirrorOpen
  \/ MirrorFetch
  \/ MirrorFetchNone
  \/ MirrorFetchFail
  \/ MirrorWrite
  \/ MirrorWritten

Spec == Init /\ [][Next]_vars

\* One call of replaceLocalDataWithRemote.  Every step of the run is the
\* continuation of an awaited store call: as long as the store calls come
\* back (with a value or with a throw) the run takes its next step.  A listing
\* may yield or throw; whether it throws is not for fairness to decide.
MirrorNext ==
  \/ CallReplace
  \/ DeleteListNext
  \/ DeleteListEnd
  \/ DeleteListFail
  \/ Stage
  \/ AfterLoop
  \/ CommitOk
  \/ CommitFail
  \/ RetryOk
  \/ RetryFail
  \/ RetryReturn
  \/ Return
  \/ MirrorDelete
  \/ MirrorDeleted
  \/ MirrorWipe
  \/ MirrorWiped
  \/ MirrorOpen
  \/ MirrorFetch
  \/ MirrorFetchNone
  \/ MirrorFetchFail
  \/ MirrorWrite
  \/ MirrorWritten

\* the steps a run takes by itself once it has been called
MirrorFairness ==
  /\ WF_vars(DeleteListNext) /\ WF_vars(DeleteListEnd)
  /\ WF_vars(Stage) /\ WF_vars(AfterLoop)
  /\ WF_vars(CommitOk \/ CommitFail)
  /\ WF_vars(RetryOk \/ RetryFail) /\ WF_vars(RetryReturn)
  /\ WF_vars(Return)
  /\ WF_vars(MirrorDelete) /\ WF_vars(MirrorDeleted)
  /\ WF_vars(MirrorWipe) /\ WF_vars(MirrorWiped)
  /\ WF_vars(MirrorOpen)
  /\ WF_vars(MirrorFetchFail \/ MirrorFetch) /\ WF_vars(MirrorFetchNone)
  /\ WF_vars(MirrorWrite) /\ WF_vars(MirrorWritten)

MirrorSpec == Init /\ [][MirrorNext]_vars /\ MirrorFairness

\* ------------------------------------------------------------ two calls in a row
\* src/mod_test.ts: a multiSet or a wipeKvStore, and when it has returned a
\* count, a countAll or a multiDelete of the keys just written.
RoundTripStores == InitStores \cup {EmptyStore}
RoundTripValues == {4444}
RoundTripMaps == SeqsUpTo(Keys \X RoundTripValues, MaxOps)

CallRecord ==
  [api |-> api, entries |-> keyValues, result |-> result[1], before |-> kv0,
   faults |-> faults]

FirstReturned(f) == api = f /\ pc = "done" /\ prior = <<>>

WriteFirst == CallMultiSetOf(RoundTripMaps)

\* await multiSet(keyValues); await count(selector)
ThenCount ==
  /\ FirstReturned("multiSet")
  /\ prior' = <<CallRecord>>
  /\ \E sel \in Selectors : EnterCount(sel)
  /\ api' = "count"
  /\ result' = <<>>

\* await wipeKvStore(); await countAll()
ThenCountAll ==
  /\ FirstReturned("wipeKvStore")
  /\ prior' = <<CallRecord>>
  /\ EnterCount(SelAll)
  /\ api' = "countAll"
  /\ result' = <<>>

\* await multiSet(keyValues); await multiDelete([...keyValues.keys()])
ThenMultiDelete ==
  /\ FirstReturned("multiSet")
  /\ prior' = <<CallRecord>>
  /\ EnterMultiDeleteKeys([j \in DOMAIN keyValues |-> keyValues[j].key])
  /\ api' = "multiDelete"
  /\ result' = <<>>
  /\ UNCHANGED <<kv, cnt, mirror, listFailed, deleteFailures, writeFailures, faults, others>>

RoundTripNext ==
  \/ WriteFirst
  \/ CallWipeKvStore
  \/ DeleteListNext
  \/ DeleteListEnd
  \/ Stage
  \/ AfterLoop
  \/ CommitOk
  \/ CommitFail
  \/ RetryOk
  \/ RetryFail
  \/ RetryReturn
  \/ Return
  \/ ThenCount
  \/ ThenCountAll
  \/ ThenMultiDelete
  \/ CountNext
  \/ CountEnd

RoundTripSpec == InitIn(RoundTripStores) /\ [][RoundTripNext]_vars

\* ------------------------------------------------------------ another client
\* The store is a database other clients are connected to: while a
\* multiDelete of a selector or a wipeKvStore is running, between two of its
\* awaited store calls, another client sets a key.
\* Most writes of the other client during one call.
MaxWrites == 2
WriterValues == {4444}

CallRunning == pc \in {"list", "loop", "commit", "retry", "return"}

OtherWriterSet ==
  /\ CallRunning
  /\ Len(others) < MaxWrites
  /\ \E k \in Keys, v \in WriterValues :
       /\ kv' = ApplyOp(kv, SetOp(k, v))
       /\ others' = Append(others, [key |-> k, value |-> v,
                                    inserted |-> kv[k] = NoValue,
                                    listed |-> pc # "list",
                                    keys |-> keys])
  /\ UNCHANGED <<api, pc, result, frame, mirror, kv0, commitLog, indivLog,
                 listFailed, deleteFailures, writeFailures, faults, prior>>

ConcurrentNext ==
  \/ CallMultiDeleteSelector
  \/ CallWipeKvStore
  \/ DeleteListNext
  \/ DeleteListEnd
  \/ DeleteListFail
  \/ Stage
  \/ AfterLoop
  \/ CommitOk
  \/ CommitFail
  \/ RetryOk
  \/ RetryFail
  \/ RetryReturn
  \/ Return
  \/ OtherWriterSet

ConcurrentSpec == InitIn(RoundTripStores) /\ [][ConcurrentNext]_vars

\* ------------------------------------------------------------ what the properties read
BatchReturned == ret # <<>>
InBatch == fn # "none"

Refs(ks) == {ks[j].ref : j \in DOMAIN ks}
Parts(ks) == {ks[j].parts : j \in DOMAIN ks}
Range(q) == {q[j] : j \in DOMAIN q}

InputKeys == [j \in 1..InputLen |-> EntryKey(j)]
InputOps == [j \in 1..InputLen |-> EntryOp(j)]

RECURSIVE GroupSize(_)
GroupSize(ops) ==
  IF ops = <<>> THEN 0 ELSE computeTransactionSize(Head(ops)) + GroupSize(Tail(ops))

RECURSIVE FlattenOps(_)
FlattenOps(log) == IF log = <<>> THEN <<>> ELSE Head(log).ops \o FlattenOps(Tail(log))

RECURSIVE FlattenKeys(_)
FlattenKeys(log) == IF log = <<>> THEN <<>> ELSE Head(log).keys \o FlattenKeys(Tail(log))

IsPrefixOf(a, b) == Len(a) <= Len(b) /\ a = SubSeq(b, 1, Len(a))

OkGroups == {g \in DOMAIN commitLog : commitLog[g].ok}
FailedGroups == DOMAIN commitLog \ OkGroups

\* input occurrences by outcome
CommittedRefs == UNION {Refs(commitLog[g].keys) : g \in OkGroups}
RetriedOkRefs == {indivLog[j].key.ref : j \in {x \in DOMAIN indivLog : indivLog[x].ok}}
RetriedFailedRefs == {indivLog[j].key.ref : j \in {x \in DOMAIN indivLog : ~indivLog[x].ok}}
SucceededRefs == CommittedRefs \cup RetriedOkRefs

\* the same by key content
KeysAt(refs) == {EntryKey(j).parts : j \in refs}

AttemptsOf(g) == SelectSeq(indivLog, LAMBDA e : e.group = g)
FailedAttempts == SelectSeq(indivLog, LAMBDA e : ~e.ok)

DistinctInput ==
  \A a, b \in 1..InputLen : a # b => EntryKey(a).parts # EntryKey(b).parts

\* ------------------------------------------------------------ C1
\* C1 as stated: when multiSet / multiDelete has returned, the keys listed in
\* failedKeys and the keys that succeeded (group commit or individual retry)
\* are disjoint sets that together are the input keys, so that
\* |failedKeys| + |succeededKeys| = |inputKeys|.
C1_KeysInOneBucket ==
  BatchReturned =>
    LET F == Parts(ret[1].failedKeys)
        S == KeysAt(SucceededRefs)
        I == KeysAt(1..InputLen)
    IN  /\ F \cap S = {}
        /\ F \cup S = I
        /\ Cardinality(F) + Cardinality(S) = Cardinality(I)

\* C1 amended: every submitted occurrence of a key (every entry of the map,
\* every element of the key array) ends in exactly one bucket, failedKeys
\* lists each failed occurrence once, and the counts add up by occurrence;
\* the key sets are disjoint when the submitted keys are pairwise distinct.
C1_OccurrencesInOneBucket ==
  BatchReturned =>
    LET F == Refs(ret[1].failedKeys) IN
    /\ F \cap SucceededRefs = {}
    /\ F \cup SucceededRefs = 1..InputLen
    /\ Len(ret[1].failedKeys) = Cardinality(F)
    /\ Len(ret[1].failedKeys) + Cardinality(SucceededRefs) = InputLen
    /\ DistinctInput =>
         /\ Parts(ret[1].failedKeys) \cap KeysAt(SucceededRefs) = {}
         /\ Cardinality(Parts(ret[1].failedKeys)) + Cardinality(KeysAt(SucceededRefs))
              = Cardinality(KeysAt(1..InputLen))

\* a call returned with a committed group, a retried key and a failed key
C1_Witness ==
  /\ BatchReturned
  /\ ret[1].failedKeys # <<>>
  /\ CommittedRefs # {}
  /\ RetriedOkRefs # {}

\* ------------------------------------------------------------ C2
IsResult == api \in {"multiSet", "multiDelete", "wipeKvStore", "replaceLocalDataWithRemote"}

\* C2: every Result returned by multiSet, multiDelete, wipeKvStore and
\* replaceLocalDataWithRemote has ok = TRUE exactly when it lists no failed key.
C2_OkIffNoFailedKeys ==
  /\ BatchReturned => (ret[1].ok <=> ret[1].failedKeys = <<>>)
  /\ (IsResult /\ result # <<>>) => (result[1].ok <=> result[1].failedKeys = <<>>)

\* the mirror returned a Result that lists a single failed key
C2_Witness ==
  /\ api = "replaceLocalDataWithRemote"
  /\ result # <<>>
  /\ Len(result[1].failedKeys) = 1

\* ------------------------------------------------------------ C3
\* C3: the groups a commit is attempted for, concatenated in commit order, are
\* a prefix of the input at every moment and the whole input once the call
\* has returned: nothing dropped, reordered or duplicated.
C3_PartitionExact ==
  InBatch =>
    /\ IsPrefixOf(FlattenOps(commitLog), InputOps)
    /\ IsPrefixOf(FlattenKeys(commitLog), InputKeys)
    /\ BatchReturned =>
         /\ FlattenOps(commitLog) = InputOps
         /\ FlattenKeys(commitLog) = InputKeys

\* a call returned after three commit attempts, one of which failed
C3_Witness ==
  /\ BatchReturned
  /\ Len(commitLog) = 3
  /\ FailedGroups # {}
  /\ OkGroups # {}

\* ------------------------------------------------------------ C4
Oversized(op) == computeTransactionSize(op) > MAX_KV_VALUE_SIZE
HasOversized(ops) == \E j \in DOMAIN ops : Oversized(ops[j])

Front(q) == SubSeq(q, 1, Len(q) - 1)

\* C4 as stated: every group a commit is attempted for, unless it holds an
\* oversized operation, has cumulative size <= SIZE_LIMIT and at most
\* MAX_NUM_TRANSACTIONS operations.
C4_GroupsWithinCeilings ==
  \A g \in DOMAIN commitLog :
    \/ HasOversized(commitLog[g].ops)
    \/ /\ GroupSize(commitLog[g].ops) <= SIZE_LIMIT
       /\ Len(commitLog[g].ops) <= MAX_NUM_TRANSACTIONS

\* C4 amended: every group a commit is attempted for has at most
\* MAX_NUM_TRANSACTIONS operations, and its cumulative size before its last
\* operation was staged is <= SIZE_LIMIT (with its last operation the group
\* may exceed SIZE_LIMIT, also when no operation is oversized).
C4_CeilingBeforeLastOp ==
  \A g \in DOMAIN commitLog :
    /\ Len(commitLog[g].ops) <= MAX_NUM_TRANSACTIONS
    /\ Len(commitLog[g].ops) >= 1
    /\ GroupSize(Front(commitLog[g].ops)) <= SIZE_LIMIT

\* a commit was attempted for a group of operations none of which is
\* oversized and whose cumulative size is above SIZE_LIMIT
C4_Witness ==
  \E g \in DOMAIN commitLog :
    /\ ~HasOversized(commitLog[g].ops)
    /\ GroupSize(commitLog[g].ops) > SIZE_LIMIT

\* ------------------------------------------------------------ C5
\* operation j of group g was larger than the byte budget the group had left
OverBudget(g, j) ==
  computeTransactionSize(commitLog[g].ops[j])
    > SIZE_LIMIT - GroupSize(SubSeq(commitLog[g].ops, 1, j - 1))

\* C5 as stated: an operation larger than the remaining byte budget of the
\* current non-empty group is the first operation of a new group.
C5_OverBudgetOpStartsGroup ==
  \A g \in DOMAIN commitLog :
    \A j \in DOMAIN commitLog[g].ops : OverBudget(g, j) => j = 1

\* C5 amended: an operation larger than the remaining byte budget of the
\* current group is staged into that group as its last operation and the
\* group is sealed with it; the operation after it is the first of the next
\* group.  No operation is split: it is staged whole, in one group.
C5_OverBudgetOpSealsGroup ==
  /\ \A g \in DOMAIN commitLog :
       \A j \in DOMAIN commitLog[g].ops :
         OverBudget(g, j) =>
           /\ j = Len(commitLog[g].ops)
           /\ g < Len(commitLog) =>
                commitLog[g + 1].keys[1].ref = commitLog[g].keys[j].ref + 1
  /\ pc = "loop" => \A j \in DOMAIN atomic :
                      GroupSize(SubSeq(atomic, 1, j)) <= SIZE_LIMIT
  /\ \A g \in DOMAIN commitLog :
       \A j \in DOMAIN commitLog[g].ops :
         commitLog[g].ops[j] = EntryOp(commitLog[g].keys[j].ref)

\* a non-empty group took an operation larger than its remaining budget, and
\* another group followed
C5_Witness ==
  \E g \in DOMAIN commitLog :
    /\ Len(commitLog[g].ops) = 2
    /\ OverBudget(g, 2)
    /\ ~OverBudget(g, 1)
    /\ g < Len(commitLog)

\* ------------------------------------------------------------ C6
GroupsHolding(ref) == {g \in DOMAIN commitLog : ref \in Refs(commitLog[g].keys)}

\* C6: no operation is handed to atomic.commit() twice (a group is committed
\* once, whether that commit failed or succeeded), every commit attempt is for
\* the staged keys, and once the call has returned every operation has been
\* in exactly one commit attempt.
C6_OneCommitPerGroup ==
  InBatch =>
    /\ \A ref \in 1..InputLen : Cardinality(GroupsHolding(ref)) <= 1
    /\ \A g \in DOMAIN commitLog : Len(commitLog[g].ops) = Len(commitLog[g].keys)
    /\ Len(FlattenOps(commitLog)) <= InputLen
    /\ BatchReturned =>
         \A ref \in 1..InputLen : Cardinality(GroupsHolding(ref)) = 1

\* a group's commit failed, another group was committed after it, and the
\* call returned
C6_Witness ==
  /\ BatchReturned
  /\ \E g \in FailedGroups : g < Len(commitLog)

\* ------------------------------------------------------------ C7
RetryOver(g) == g < Len(commitLog) \/ pc # "retry"

\* C7: the individual operations issued after group g's commit failed are
\* the operations staged in g, in order, with the caller's values, each once
\* (a prefix of them while the retry runs); a group whose commit succeeded
\* has none.
C7_FallbackReplaysGroup ==
  \A g \in DOMAIN commitLog :
    LET att == AttemptsOf(g)
        ops == commitLog[g].ops
    IN  IF commitLog[g].ok
        THEN att = <<>>
        ELSE /\ Len(att) <= Len(ops)
             /\ \A j \in DOMAIN att :
                  /\ att[j].op = ops[j]
                  /\ att[j].key = commitLog[g].keys[j]
             /\ RetryOver(g) => Len(att) = Len(ops)

\* the fallback of a failed group of two sets of one key with two values has
\* run to its end, and some group was committed
C7_Witness ==
  /\ fn = "multiSet"
  /\ OkGroups # {}
  /\ \E g \in FailedGroups :
       /\ RetryOver(g)
       /\ Len(commitLog[g].ops) = 2
       /\ commitLog[g].ops[1].key = commitLog[g].ops[2].key
       /\ commitLog[g].ops[1].value # commitLog[g].ops[2].value

\* ------------------------------------------------------------ C8
KeysOf(log) == [j \in DOMAIN log |-> log[j].key]

\* C8: the keys the fallback has put in failedKeys are exactly the keys whose
\* individual attempt failed, in order; once the call has returned every
\* operation of every failed group has been attempted individually and every
\* operation of the input has been in a commit attempt.
C8_FallbackIndependent ==
  InBatch =>
    /\ (IF pc = "retry" THEN failedKeys \o retryFailedKeys ELSE failedKeys)
         = KeysOf(FailedAttempts)
    /\ BatchReturned =>
         /\ \A g \in FailedGroups : Len(AttemptsOf(g)) = Len(commitLog[g].ops)
         /\ \A ref \in 1..InputLen : GroupsHolding(ref) # {}
         /\ Refs(ret[1].failedKeys) = RetriedFailedRefs

\* the first individual operation of a failed group failed, the second went
\* through, and a later group was committed
C8_Witness ==
  /\ BatchReturned
  /\ \E g \in FailedGroups :
       /\ Len(AttemptsOf(g)) = 2
       /\ ~AttemptsOf(g)[1].ok
       /\ AttemptsOf(g)[2].ok
       /\ g + 1 \in OkGroups

\* ------------------------------------------------------------ C9
\* C9: once an iteration of kv.list has thrown in multiDelete(selector) or
\* count(selector) the call has thrown: no Result or count is returned, no
\* delete was staged, committed or issued, and the store is as the call
\* found it.
C9_ListingFaultPropagates ==
  listFailed =>
    /\ pc = "thrown"
    /\ result = <<>>
    /\ ret = <<>>
    /\ atomic = <<>>
    /\ commitLog = <<>>
    /\ indivLog = <<>>
    /\ kv = kv0

\* kv.list threw in multiDelete after it had yielded two keys
C9_Witness ==
  /\ listFailed
  /\ api = "multiDelete"
  /\ Len(keys) = 2

\* ------------------------------------------------------------ C10
MirrorReturned == api = "replaceLocalDataWithRemote" /\ result # <<>>

\* C10: the Result of replaceLocalDataWithRemote has ok = TRUE exactly when
\* no local delete and no local write failed during the run, and its
\* failedKeys are the keys of the failed deletes and of the failed writes,
\* with selectors and without.
C10_MirrorAggregatesFailures ==
  MirrorReturned =>
    /\ result[1].ok <=> (deleteFailures = <<>> /\ writeFailures = <<>>)
    /\ Parts(result[1].failedKeys) = Range(deleteFailures) \cup Range(writeFailures)

\* the same, for the calls that were given selectors
C10_WithSelectors ==
  (MirrorReturned /\ prefixes.given) =>
    /\ result[1].ok <=> (deleteFailures = <<>> /\ writeFailures = <<>>)
    /\ Parts(result[1].failedKeys) = Range(deleteFailures) \cup Range(writeFailures)

\* ------------------------------------------------------------ C11
MirrorStarted == InMirror /\ mpc \in {"delete", "wipe"}
ListingThrew == pc = "thrown"

Aggregated ==
  /\ result[1].ok <=> (deleteFailures = <<>> /\ writeFailures = <<>>)
  /\ Len(result[1].failedKeys) = Len(deleteFailures) + Len(writeFailures)

\* C11: once the delete phase of replaceLocalDataWithRemote has started, and
\* unless a listing throws, the run goes on to fetch the remote entries, write
\* them locally and return a Result that aggregates the failed deletes and
\* the failed writes.
C11_RunCompletesAndAggregates ==
  MirrorStarted ~>
    \/ ListingThrew
    \/ MirrorReturned /\ mpc = "done" /\ Aggregated

\* the part of C11 that is about progress alone: a failed delete or write
\* never ends the run, which goes on to its return
C11_RunCompletes ==
  MirrorStarted ~> (ListingThrew \/ (MirrorReturned /\ mpc = "done"))

\* a run returned after deletes and writes had failed
C11_Witness ==
  /\ MirrorReturned
  /\ deleteFailures # <<>>
  /\ writeFailures # <<>>

\* ------------------------------------------------------------ C12
\* Idle 0, Deleting 1, Fetching-Remote 2, Writing-Local 3, Done or
\* PartialFailure 4
Phase ==
  CASE mpc = "none" -> 0
    [] mpc \in {"delete", "deleting", "wipe", "wiping"} -> 1
    [] mpc \in {"open", "fetch"} -> 2
    [] mpc \in {"write", "writing"} -> 3
    [] OTHER -> 4

StoreCalled ==
  \/ kv' # kv
  \/ Len(commitLog') > Len(commitLog)
  \/ Len(indivLog') > Len(indivLog)

OnlyDeletes(log) == \A g \in DOMAIN log : \A j \in DOMAIN log[g].ops : log[g].ops[j].type = "delete"
OnlySets(log) == \A g \in DOMAIN log : \A j \in DOMAIN log[g].ops : log[g].ops[j].type = "set"

\* C12: a run of replaceLocalDataWithRemote goes through Idle, Deleting,
\* Fetching-Remote, Writing-Local, Done or PartialFailure in that order, one
\* phase at a time and never back (a listing that throws ends the run where
\* it stands).  Local deletes are issued in Deleting only and for every
\* selector before the first remote read; remote entries are read in
\* Fetching-Remote only, for every selector, before the first local write;
\* local writes are issued in Writing-Local only.
C12_PhasesInOrder ==
  [][ /\ Phase' >= Phase
      /\ mpc' # "thrown" => Phase' <= Phase + 1
      /\ Phase' = 0 => ~InMirror'
      /\ (InMirror /\ StoreCalled) =>
            \/ Phase = 1 /\ Phase' = 1 /\ fn = "multiDelete" /\ OnlyDeletes(commitLog')
                 /\ data = <<>>
            \/ Phase = 3 /\ Phase' = 3 /\ fn = "multiSet" /\ OnlySets(commitLog')
      /\ data' # data => Phase = 2
      /\ (Phase = 1 /\ Phase' = 2 /\ prefixes.given) => p = Len(prefixes.list)
      /\ (Phase = 2 /\ Phase' = 3 /\ prefixes.given) => p' = Len(prefixes.list)
      /\ (Phase = 3 /\ Phase' = 4) => result' # <<>>
    ]_vars

\* a run with two selectors deleted, read and wrote, and returned a partial
\* failure
C12_Witness ==
  /\ MirrorReturned
  /\ mpc = "done"
  /\ Len(prefixes.list) = 2
  /\ data # <<>>
  /\ deleteFailures # <<>>
  /\ commitLog # <<>>
  /\ ~result[1].ok

\* ------------------------------------------------------------ C13
Selected(pf, k) == \E j \in DOMAIN pf.list : InRange(pf.list[j], k)

OpKeys(clog, ilog) ==
  UNION {{clog[g].ops[j].key : j \in DOMAIN clog[g].ops} : g \in DOMAIN clog}
    \cup {ilog[j].op.key : j \in DOMAIN ilog}

\* C13: in a run of replaceLocalDataWithRemote with selectors no step changes
\* the presence or the value of a local key that matches none of the
\* selectors, and no delete or set is staged, committed or issued for such a
\* key.
C13_UnselectedKeysKept ==
  [][ (InMirror' /\ prefixes'.given) =>
        /\ \A k \in Keys : ~Selected(prefixes', k) => kv'[k] = kv[k]
        /\ \A k \in OpKeys(commitLog', indivLog') : Selected(prefixes', k)
        /\ \A j \in DOMAIN atomic' : Selected(prefixes', atomic'[j].key)
    ]_vars

\* a run with selectors returned: the selected keys hold the remote values,
\* and a key outside the selection, which the remote store holds with
\* another value, is still there
C13_Witness ==
  /\ MirrorReturned
  /\ prefixes.given
  /\ result[1].ok
  /\ \E k \in Keys : /\ Selected(prefixes, k)
                      /\ kv[k] = remote[k]
                      /\ kv[k] # NoValue
                      /\ kv[k] # kv[<<2>>]
  /\ ~Selected(prefixes, <<2>>)
  /\ kv[<<2>>] # NoValue
  /\ remote[<<2>>] # NoValue
  /\ kv[<<2>>] # remote[<<2>>]

\* ------------------------------------------------------------ C14
InScope(pf, k) == IF pf.given THEN Selected(pf, k) ELSE TRUE

\* C14: when replaceLocalDataWithRemote has returned and no store call threw
\* during the run, every key of the selected ranges (every key, without
\* selectors) is present locally exactly when it is present remotely, and
\* then with the remote value.
C14_SelectedRangesMirrorRemote ==
  (MirrorReturned /\ mpc = "done" /\ faults = 0) =>
    \A k \in Keys : InScope(prefixes, k) => kv[k] = remote[k]

\* a run without selectors and without a fault returned; the remote store
\* does not hold [1, 2], which every local store held before the run
C14_Witness ==
  /\ MirrorReturned
  /\ mpc = "done"
  /\ faults = 0
  /\ ~prefixes.given
  /\ remote[<<1, 2>>] = NoValue
  /\ kv[<<1, 2>>] = NoValue
  /\ kv[<<1, 1>>] = remote[<<1, 1>>]
  /\ kv[<<1, 1>>] # NoValue

\* the same with two overlapping selectors, written in two groups
C14_WitnessSelectors ==
  /\ MirrorReturned
  /\ mpc = "done"
  /\ faults = 0
  /\ Len(prefixes.list) = 2
  /\ Len(commitLog) = 2
  /\ kv[<<1, 1>>] = remote[<<1, 1>>]
  /\ kv[<<2>>] # remote[<<2>>]

\* ------------------------------------------------------------ C15
\* what countAll() returns on a store
KeyCount(store) == Cardinality({k \in Keys : store[k] # NoValue})

InDelete == fn = "multiDelete"
Absent(store, key) == store[key.parts] = NoValue

\* C15 as stated: when multiDelete has returned, no key that the store did
\* not hold is in failedKeys, and the deletes of such keys have not changed
\* the key count.
C15_AbsentKeyNeverFailed ==
  (InDelete /\ BatchReturned) =>
    /\ \A j \in DOMAIN ret[1].failedKeys : ~Absent(kv0, ret[1].failedKeys[j])
    /\ (\A j \in 1..InputLen : Absent(kv0, EntryKey(j))) => KeyCount(kv) = KeyCount(kv0)

\* the keys of the input whose delete has been applied, by a commit or by an
\* individual kv.delete
DeletedParts == KeysAt(SucceededRefs)

\* C15 amended: whether a key exists has no bearing on failedKeys, which
\* lists the keys whose commit and individual delete both threw; when no
\* store call throws, multiDelete of keys that do not exist returns ok with
\* no failedKeys.  A delete of a key that does not exist never changes the
\* store: the key count falls by the number of existing keys whose delete
\* was applied, and by nothing else.
C15_AbsentKeyDeleteIsNoOp ==
  InDelete =>
    /\ \A k \in Keys : kv0[k] = NoValue => kv[k] = NoValue
    /\ KeyCount(kv) = KeyCount(kv0)
                        - Cardinality({k \in DeletedParts : kv0[k] # NoValue})
    /\ (\A j \in 1..InputLen : Absent(kv0, EntryKey(j))) => kv = kv0
    /\ BatchReturned =>
         /\ Refs(ret[1].failedKeys) = RetriedFailedRefs
         /\ faults = 0 => ret[1].ok /\ ret[1].failedKeys = <<>>

\* multiDelete of a key the store did not hold and of a key it held has
\* returned: the first is in failedKeys, the second is gone
C15_Witness ==
  /\ api = "multiDelete"
  /\ BatchReturned
  /\ \E j \in DOMAIN ret[1].failedKeys : Absent(kv0, ret[1].failedKeys[j])
  /\ \E j \in 1..InputLen : ~Absent(kv0, EntryKey(j)) /\ Absent(kv, EntryKey(j))
  /\ KeyCount(kv) = KeyCount(kv0) - 1

\* ------------------------------------------------------------ C16
\* a count has returned that was called after a multiSet had returned
CountAfterWrite ==
  api = "count" /\ pc = "done" /\ prior # <<>> /\ prior[1].api = "multiSet"

Written == {prior[1].entries[j].key.parts : j \in DOMAIN prior[1].entries}
DistinctWritten == Cardinality(Written) = Len(prior[1].entries)
Held(store, sel) == {k \in Keys : store[k] # NoValue /\ InRange(sel, k)}
Matching(sel) == \A k \in Written : InRange(sel, k)

\* C16 as stated: after a multiSet of N >= 1 pairs in which no store call
\* threw, the count for a selector that matches the written keys is N.
C16_CountIsN ==
  (CountAfterWrite /\ faults = 0 /\ Written # {} /\ Matching(selector)) =>
    result[1] = Len(prior[1].entries)

\* C16 amended: the count is the number of keys the selector's range holds,
\* which after a multiSet without a throwing store call are the keys the
\* range held before and the written keys in the range; it is N when the N
\* written keys are pairwise distinct, all in the range, and the range held
\* no other key before the write.
C16_CountIsKeysInRange ==
  CountAfterWrite =>
    /\ result[1] = Cardinality(Held(kv, selector))
    /\ faults = 0 =>
         /\ Held(kv, selector) =
              Held(prior[1].before, selector) \cup {k \in Written : InRange(selector, k)}
         /\ (/\ Matching(selector)
             /\ DistinctWritten
             /\ Held(prior[1].before, selector) \subseteq Written)
              => result[1] = Len(prior[1].entries)

\* three distinct keys were written in two groups to a store that held none
\* of them, and the count of the range they are in returned 3
C16_Witness ==
  /\ CountAfterWrite
  /\ faults = 0
  /\ Len(prior[1].entries) = 3
  /\ DistinctWritten
  /\ Matching(selector)
  /\ Held(prior[1].before, selector) = {}
  /\ result[1] = 3

\* ------------------------------------------------------------ C17
\* a multiDelete of the written keys has returned, called after the multiSet
\* had returned
DeleteAfterWrite ==
  api = "multiDelete" /\ pc = "done" /\ prior # <<>> /\ prior[1].api = "multiSet"

HeldBefore == {k \in Keys : prior[1].before[k] # NoValue}

\* C17 as stated: after multiSet of N keys and multiDelete of the same keys,
\* with no throwing store call, the key count is what it was before the
\* write, whatever the store held.
C17_CountRestored ==
  (DeleteAfterWrite /\ faults = 0) => KeyCount(kv) = KeyCount(prior[1].before)

\* C17 amended: after multiSet of N keys and multiDelete of the same keys,
\* with no throwing store call, none of the written keys is in the store and
\* every other key is as it was: the key count is the count before the write
\* minus the number of written keys the store already held, and so the
\* count before the write exactly when the store held none of them.
C17_CountRestoredButOverwritten ==
  (DeleteAfterWrite /\ faults = 0) =>
    /\ \A k \in Keys : kv[k] = IF k \in Written THEN NoValue ELSE prior[1].before[k]
    /\ KeyCount(kv) = KeyCount(prior[1].before) - Cardinality(Written \cap HeldBefore)
    /\ KeyCount(kv) = KeyCount(prior[1].before) <=> Written \cap HeldBefore = {}
    /\ prior[1].result.ok
    /\ result[1].ok

\* a key that a non-empty store did not hold was written and deleted again,
\* and the store is as before
C17_Witness ==
  /\ DeleteAfterWrite
  /\ faults = 0
  /\ Written # {}
  /\ Written \cap HeldBefore = {}
  /\ KeyCount(prior[1].before) > 0
  /\ kv = prior[1].before

\* ------------------------------------------------------------ C18
\* the frame has its input (a listing, if any, has ended) and it is empty
EmptyInput == InBatch /\ pc \notin {"list", "thrown"} /\ InputLen = 0

\* C18: multiSet of an empty map, multiDelete of an empty key array and
\* multiDelete of a selector that matches no key make no group: nothing is
\* staged, no commit is attempted, no individual operation is issued, the
\* store stays as it was, and the Result is ok = TRUE with no failedKeys.
C18_EmptyInputNoGroup ==
  EmptyInput =>
    /\ atomic = <<>>
    /\ commitLog = <<>>
    /\ indivLog = <<>>
    /\ pc \notin {"commit", "retry"}
    /\ kv = kv0
    /\ BatchReturned => ret[1].ok /\ ret[1].failedKeys = <<>>
    /\ (pc = "done" /\ api \in {"multiSet", "multiDelete"}) => result[1].ok

\* multiDelete of a selector that matches none of the keys of a store that
\* holds other keys has returned
C18_Witness ==
  /\ api = "multiDelete"
  /\ pc = "done"
  /\ selector = SelOneEnd
  /\ keys = <<>>
  /\ KeyCount(kv0) > 0
  /\ result[1].ok

\* multiSet of an empty map has returned
C18_WitnessEmptyMap ==
  /\ api = "multiSet"
  /\ pc = "done"
  /\ keyValues = <<>>
  /\ result[1].ok

\* ------------------------------------------------------------ C19
\* the successful individual operations of group g, in the order issued
AppliedIndividually(g) ==
  LET att == SelectSeq(AttemptsOf(g), LAMBDA e : e.ok)
  IN  [j \in DOMAIN att |-> att[j].op]

\* every operation the store has applied, in the order applied
RECURSIVE AppliedUpTo(_)
AppliedUpTo(g) ==
  IF g = 0 THEN <<>>
  ELSE AppliedUpTo(g - 1)
         \o (IF commitLog[g].ok THEN commitLog[g].ops ELSE AppliedIndividually(g))

TimesApplied(ref) ==
  Cardinality({g \in OkGroups : ref \in Refs(commitLog[g].keys)})
    + Cardinality({j \in DOMAIN indivLog : indivLog[j].ok /\ indivLog[j].key.ref = ref})

\* C19: groups are processed one at a time, in order: individual operations
\* are issued for the group whose commit failed last and for no other, and
\* every earlier group is finished (committed, or every operation of it
\* attempted individually).  No operation of the input is applied by both a
\* successful commit and a fallback, or twice by either, and the store is
\* the store the call found with the applied operations applied in order,
\* so that each key's state comes from one commit or one individual
\* operation.
C19_OneGroupAtATime ==
  InBatch =>
    /\ \A j \in DOMAIN indivLog : indivLog[j].group \in FailedGroups
    /\ \A a, b \in DOMAIN indivLog : a < b => indivLog[a].group <= indivLog[b].group
    /\ \A g \in DOMAIN commitLog :
         g < Len(commitLog) =>
           commitLog[g].ok \/ Len(AttemptsOf(g)) = Len(commitLog[g].ops)
    /\ \A g \in FailedGroups :
         \A j \in DOMAIN AttemptsOf(g) : AttemptsOf(g)[j].key.ref \in Refs(commitLog[g].keys)
    /\ CommittedRefs \cap (RetriedOkRefs \cup RetriedFailedRefs) = {}
    /\ \A ref \in 1..InputLen : TimesApplied(ref) <= 1
    /\ kv = ApplyAll(kv0, AppliedUpTo(Len(commitLog)))

\* a call returned after a committed group, then a group whose commit failed
\* and whose operations were applied individually, on the same key
C19_Witness ==
  /\ BatchReturned
  /\ Len(commitLog) = 2
  /\ commitLog[1].ok
  /\ ~commitLog[2].ok
  /\ AppliedIndividually(2) # <<>>
  /\ \E j \in DOMAIN commitLog[1].ops : commitLog[1].ops[j].key = commitLog[2].ops[1].key

\* ------------------------------------------------------------ C20
\* a countAll has returned that was called after a wipeKvStore had returned
CountAfterWipe ==
  api = "countAll" /\ pc = "done" /\ prior # <<>> /\ prior[1].api = "wipeKvStore"

\* C20: wipeKvStore is multiDelete of the selector that matches every key;
\* after a wipeKvStore in which no store call threw the store holds no key
\* and countAll() returns 0, whatever the store held.
C20_WipeLeavesNothing ==
  /\ (api = "wipeKvStore" /\ pc # "idle") =>
        /\ fn = "multiDelete"
        /\ \A k \in Keys : InRange(selector, k)
        /\ (pc = "done" /\ faults = 0) =>
              /\ result[1].ok
              /\ Parts(keys) = {k \in Keys : kv0[k] # NoValue}
              /\ KeyCount(kv) = 0
  /\ (CountAfterWipe /\ faults = 0) =>
        /\ result[1] = 0
        /\ kv = EmptyStore
        /\ prior[1].result.ok

\* a store of three keys, more than one group holds, was wiped in two
\* groups and countAll returned 0
C20_Witness ==
  /\ CountAfterWipe
  /\ faults = 0
  /\ KeyCount(prior[1].before) = 3
  /\ Len(commitLog) = 2
  /\ result[1] = 0

\* ------------------------------------------------------------ C21
\* ceil(n / MAX_NUM_TRANSACTIONS)
GroupsByCount(n) == (n + MAX_NUM_TRANSACTIONS - 1) \div MAX_NUM_TRANSACTIONS

\* the running size never exceeded SIZE_LIMIT: a group that exceeded it was
\* sealed with that size and is in the log
ByteCeilingNeverReached ==
  /\ \A g \in DOMAIN commitLog : GroupSize(commitLog[g].ops) <= SIZE_LIMIT
  /\ transactionSize <= SIZE_LIMIT

\* C21: when the byte ceiling is never reached, every group but the last
\* holds exactly MAX_NUM_TRANSACTIONS operations and the last at least one
\* and at most MAX_NUM_TRANSACTIONS, and a call on n operations that has
\* returned attempted exactly ceil(n / MAX_NUM_TRANSACTIONS) commits: two for
\* an input one over the item ceiling, one for an input of exactly the
\* ceiling.
C21_CommitsAreCeilOfCount ==
  (InBatch /\ ByteCeilingNeverReached) =>
    /\ \A g \in DOMAIN commitLog :
         /\ g < Len(commitLog) => Len(commitLog[g].ops) = MAX_NUM_TRANSACTIONS
         /\ Len(commitLog[g].ops) \in 1..MAX_NUM_TRANSACTIONS
    /\ BatchReturned =>
         /\ Len(commitLog) = GroupsByCount(InputLen)
         /\ InputLen > MAX_NUM_TRANSACTIONS => Len(commitLog) >= 2
         /\ InputLen = MAX_NUM_TRANSACTIONS => Len(commitLog) = 1

\* a multiSet of one operation more than the item ceiling has returned after
\* two commits, none sealed by size
C21_Witness ==
  /\ BatchReturned
  /\ fn = "multiSet"
  /\ ByteCeilingNeverReached
  /\ InputLen = MAX_NUM_TRANSACTIONS + 1
  /\ Len(commitLog) = 2
  /\ Len(commitLog[2].ops) = 1

\* a multiDelete of exactly the item ceiling has returned after one commit,
\* not sealed by size
C21_WitnessExactCeiling ==
  /\ BatchReturned
  /\ fn = "multiDelete"
  /\ ByteCeilingNeverReached
  /\ InputLen = MAX_NUM_TRANSACTIONS
  /\ Len(commitLog) = 1

\* ------------------------------------------------------------ C22
Last(q) == q[Len(q)]

\* no operation of the input is larger than MAX_KV_VALUE_SIZE
NoOversizedInput == \A j \in 1..InputLen : ~Oversized(EntryOp(j))

StagedKeys == [j \in 1..count |-> EntryKey(i - count + j)]

\* C23: in every state of multiSet and multiDelete keysInAction holds the
\* keys of the operations staged in the current atomic operation, in the
\* order staged, and count is its length and the number of staged
\* operations; so no commit is attempted on an empty group, whether the
\* loop sealed the last group (by count or by size) or not, and the last
\* group a commit was attempted for ends with the last operation.
C23_KeysInActionTracksGroup ==
  InBatch =>
    /\ Len(keysInAction) = count
    /\ Len(atomic) = count
    /\ count <= i
    /\ keysInAction = StagedKeys
    /\ \A j \in DOMAIN atomic : atomic[j] = EntryOp(keysInAction[j].ref)
    /\ pc \in {"commit", "retry"} => count > 0
    /\ \A g \in DOMAIN commitLog :
         /\ commitLog[g].ops # <<>>
         /\ Len(commitLog[g].keys) = Len(commitLog[g].ops)
    /\ (pc = "return" /\ InputLen > 0) => Last(Last(commitLog).keys).ref = InputLen

\* a call on exactly MAX_NUM_TRANSACTIONS operations has returned after one
\* commit, the last operation having sealed the group
C23_Witness ==
  /\ BatchReturned
  /\ InputLen = MAX_NUM_TRANSACTIONS
  /\ Len(commitLog) = 1
  /\ Len(commitLog[1].ops) = MAX_NUM_TRANSACTIONS

\* a call has returned whose last operation sealed a group by size
C23_WitnessSealedBySize ==
  /\ BatchReturned
  /\ InputLen > 0
  /\ Len(Last(commitLog).ops) < MAX_NUM_TRANSACTIONS
  /\ GroupSize(Last(commitLog).ops) > SIZE_LIMIT
  /\ Last(Last(commitLog).keys).ref = InputLen

\* ------------------------------------------------------------ C24
\* the key contents the returned result lists as failed
FailedParts == Parts(ret[1].failedKeys)

\* the value the caller supplied for key content k
Supplied(k) == keyValues[CHOOSE j \in DOMAIN keyValues : keyValues[j].key.parts = k].value

\* C24: given that a failed commit and a failed individual set apply
\* nothing and nobody else writes, when multiSet on a map with distinct keys
\* has returned, every input key that is not in failedKeys holds the value
\* the caller supplied, and every key in failedKeys and every key that is
\* not in the input is as the call found it (present with the same value,
\* or absent).
C24_StoreIsInputMinusFailed ==
  (fn = "multiSet" /\ BatchReturned /\ DistinctInput) =>
    /\ FailedParts \subseteq Parts(InputKeys)
    /\ \A k \in Keys :
         kv[k] = IF k \in Parts(InputKeys) \ FailedParts THEN Supplied(k) ELSE kv0[k]

\* a multiSet of distinct keys has returned with one key failed, which the
\* store held with another value, and one key written by an individual set
C24_Witness ==
  /\ fn = "multiSet"
  /\ BatchReturned
  /\ DistinctInput
  /\ ~InMirror
  /\ Len(ret[1].failedKeys) = 1
  /\ RetriedOkRefs # {}
  /\ \A k \in FailedParts : kv0[k] # NoValue /\ kv0[k] # Supplied(k)
  /\ \E k \in Parts(InputKeys) \ FailedParts : kv0[k] # Supplied(k)

\* ------------------------------------------------------------ C25
\* a multiDelete of a selector (wipeKvStore is one) has been called
SelectorDelete == api \in {"multiDelete", "wipeKvStore"} /\ pc # "idle"

\* the other clients' writes that inserted a key after the listing finished
InsertedAfterListing ==
  {j \in DOMAIN others : others[j].listed /\ others[j].inserted}

\* the keys of every delete the call has staged or issued
DeletesIssued ==
  {atomic[j].key : j \in DOMAIN atomic}
    \cup UNION {{commitLog[g].ops[j].key : j \in DOMAIN commitLog[g].ops} :
                   g \in DOMAIN commitLog}
    \cup {indivLog[j].op.key : j \in DOMAIN indivLog}

\* C25: multiDelete of a selector stages no delete while it lists, the list
\* of keys is fixed once the listing has finished, and every delete is of a
\* listed key; a key another client inserts after the listing has finished
\* stays in the store with the value inserted, whatever the call does
\* afterwards.
C25_DeletesOnlyWhatWasListed ==
  SelectorDelete =>
    /\ pc = "list" => /\ atomic = <<>>
                      /\ commitLog = <<>>
                      /\ indivLog = <<>>
                      /\ i = 0
                      /\ kv = ApplyAll(kv0, [j \in DOMAIN others |->
                                               SetOp(others[j].key, others[j].value)])
    /\ \A j \in DOMAIN others : others[j].listed => others[j].keys = keys
    /\ DeletesIssued \subseteq Parts(keys)
    /\ \A j \in InsertedAfterListing : kv[others[j].key] = others[j].value

\* wipeKvStore returned ok = true, no store call having thrown, and the store
\* holds a key that another client inserted after the listing had finished
C25_Witness ==
  /\ api = "wipeKvStore"
  /\ pc = "done"
  /\ result[1].ok
  /\ faults = 0
  /\ commitLog # <<>>
  /\ InsertedAfterListing # {}
  /\ KeyCount(kv) > 0

\* a key the call had deleted was inserted again by another client while a
\* later group was still to be committed, and the call returned
C25_WitnessReinserted ==
  /\ SelectorDelete
  /\ pc = "done"
  /\ Len(commitLog) = 2
  /\ \E j \in InsertedAfterListing :
       /\ others[j].key \in Parts(keys)
       /\ kv[others[j].key] = others[j].value

====
